---- MODULE Spec2Model ----
(***************************************************************************)
(* RuleKeeper status server (src/server.js): uptime/downtime accounting,   *)
(* the 5-minute aligned probe loop, the periodic save and the /uptime and  *)
(* /status queries, as one state machine.                                  *)
(*                                                                         *)
(* Time is in milliseconds, as in the source.  A Date is the number of     *)
(* milliseconds since an origin that lies on an hour boundary of the local *)
(* clock.  The statements of one handler between two awaits run at one     *)
(* instant: every clock read of such a block returns the same value.       *)
(* Timers (setTimeout, setInterval) run on the monotonic clock and fire    *)
(* at their scheduled instant; Date.now() is the wall clock, which is the  *)
(* monotonic clock plus wallOffset.                                        *)
(*                                                                         *)
(* A counter (a JS Number) is held as <<hi, lo>> = hi * 1000000 + lo with  *)
(* 0 <= lo < 1000000, so that the values the unit correction of the load   *)
(* is about (above ten years of seconds times 1000) can be represented.    *)
(***************************************************************************)
EXTENDS Integers, Sequences, FiniteSets, TLC

VARIABLES
    clock,            \* monotonic time, ms
    wallOffset,       \* wall clock minus monotonic clock, ms
    pc,               \* "boot" | "waiting" (probe timer armed) | "fetching" (await fetch)
    probeTimer,       \* monotonic deadline of setTimeout(scheduleNextCheck), or null
    saveTimer,        \* monotonic deadline of the next setInterval(saveUptimeToDisk) run
    disk,             \* content of ./uptime.json
    isOnline, lastOnlineTime, downStartTime, lastCheck, lastHttpStatus,
    uptimeSeconds, downtimeSeconds, lastStateChange, lastStatus, lastUpdatedAt,
    startedAt,        \* history: wall time of the startup sequence
    settled,          \* history: the current run of settlement calls
    hist,             \* history: timers armed, fetches awaited, what the probe
                      \* under way found at its start, what the load read
    ticks             \* number of small clock steps taken (bounded)

vars == <<clock, wallOffset, pc, probeTimer, saveTimer, disk,
          isOnline, lastOnlineTime, downStartTime, lastCheck, lastHttpStatus,
          uptimeSeconds, downtimeSeconds, lastStateChange, lastStatus, lastUpdatedAt,
          startedAt, settled, hist, ticks>>

monitorVars == <<isOnline, lastOnlineTime, downStartTime, lastCheck, lastHttpStatus>>
ledgerVars == <<uptimeSeconds, downtimeSeconds, lastStateChange, lastStatus, lastOnlineTime>>

----------------------------------------------------------------------------
(* Bounds of the model *)

MaxTime == 601200
MaxSmallTicks == 2
MaxSkew == 1500
SmallSteps == {600}
BackSteps == {1500}
StartTimes == {299000, 300000}

----------------------------------------------------------------------------
(* Values *)

null == -1

\* a JS Number n >= 0 as <<hi, lo>>
Num(n) == <<n \div 1000000, n % 1000000>>

NumAdd(a, n) ==
    LET lo == a[2] + n IN <<a[1] + (lo \div 1000000), lo % 1000000>>

NumSum(a, b) ==
    LET lo == a[2] + b[2] IN <<a[1] + b[1] + (lo \div 1000000), lo % 1000000>>

NumGT(a, b) == a[1] > b[1] \/ (a[1] = b[1] /\ a[2] > b[2])

NumLE(a, b) == ~NumGT(a, b)

\* a * 1000 for a small integer a
NumTimes1000(n) == <<n \div 1000, (n % 1000) * 1000>>

\* Math.floor(a / 1000)
NumFloorDiv1000(a) == <<a[1] \div 1000, (a[1] % 1000) * 1000 + (a[2] \div 1000)>>

\* a - b as an integer, for values less than 1000 * 1000000 apart
NumMinus(a, b) == (a[1] - b[1]) * 1000000 + (a[2] - b[2])

nowMs == clock + wallOffset

----------------------------------------------------------------------------
(* Date helpers *)

getMinutes(date) == (date \div 60000) % 60

setMinutes(date, m) == date - getMinutes(date) * 60000 + m * 60000

setSeconds0(date) == date - ((date \div 1000) % 60) * 1000

setMilliseconds0(date) == date - (date % 1000)

FiveMinutesMs == 5 * 60 * 1000

\* roundUpToNext5Minutes keeping the minute when it is already a multiple of 5
roundUpToNext5Minutes_KeepsMinute(date) ==
    LET minutes == getMinutes(date)
        remainder == minutes % 5
        extra == IF remainder = 0 THEN 0 ELSE 5 - remainder
    IN  setMilliseconds0(setSeconds0(setMinutes(date, minutes + extra)))

roundUpToNext5Minutes(date) ==
    LET minutes == getMinutes(date)
        remainder == minutes % 5
        extra == IF remainder = 0 THEN 5 ELSE 5 - remainder
    IN  setMilliseconds0(setSeconds0(setMinutes(date, minutes + extra)))

\* Date.prototype.toISOString: the calendar fields of the instant
toISOString(date) ==
    << date \div 86400000, (date \div 3600000) % 24, (date \div 60000) % 60,
       (date \div 1000) % 60, date % 1000 >>

\* new Date(isoString)
parseDate(iso) ==
    (((iso[1] * 24 + iso[2]) * 60 + iso[3]) * 60 + iso[4]) * 1000 + iso[5]

JsonNull == << >>

----------------------------------------------------------------------------
(* Persistence *)

TEN_YEARS_SEC == 10 * 365 * 24 * 3600

\* a ledger file as saveUptimeToDisk writes it
JsonFile(u, d, lsc, ls, lot) ==
    [kind |-> "json", uptimeSeconds |-> u, downtimeSeconds |-> d,
     lastStateChange |-> lsc, lastStatus |-> ls, lastOnlineTime |-> lot]

\* the unit correction of one counter
sanityCheck(seconds) ==
    IF NumGT(seconds, NumTimes1000(TEN_YEARS_SEC))
    THEN NumFloorDiv1000(seconds)
    ELSE seconds

\* The ledger and anchor after loadUptimeFromDisk has read `file` at wall time `now`.
loadUptimeFromDisk(file, now) ==
    IF file.kind = "json"
    THEN LET u   == file.uptimeSeconds
             d   == file.downtimeSeconds
             lsc == IF file.lastStateChange # JsonNull
                    THEN parseDate(file.lastStateChange) ELSE null
             ls  == IF file.lastStatus \in {"true", "false"}
                    THEN file.lastStatus ELSE "null"
             lot == IF file.lastOnlineTime # JsonNull
                    THEN parseDate(file.lastOnlineTime) ELSE null
         IN  [uptimeSeconds   |-> sanityCheck(u),
              downtimeSeconds |-> sanityCheck(d),
              lastStateChange |-> lsc,
              lastStatus      |-> ls,
              lastOnlineTime  |-> IF ls = "true" /\ NumGT(d, Num(0))
                                     /\ lot = null /\ lsc # null
                                  THEN lsc ELSE lot,
              lastUpdatedAt   |-> now]
    ELSE \* readFile or JSON.parse threw: start fresh
         [uptimeSeconds   |-> Num(0),
          downtimeSeconds |-> Num(0),
          lastStateChange |-> null,
          lastStatus      |-> "null",
          lastOnlineTime  |-> lastOnlineTime,
          lastUpdatedAt   |-> now]

\* saveUptimeToDisk writing lastStateChange into both timestamp fields
saveData_CopiesStateChange ==
    JsonFile(uptimeSeconds, downtimeSeconds,
             IF lastStateChange # null THEN toISOString(lastStateChange) ELSE JsonNull,
             lastStatus,
             IF lastStateChange # null THEN toISOString(lastStateChange) ELSE JsonNull)

\* The object saveUptimeToDisk serialises
saveData ==
    JsonFile(uptimeSeconds, downtimeSeconds,
             IF lastStateChange # null THEN toISOString(lastStateChange) ELSE JsonNull,
             lastStatus,
             IF lastOnlineTime # null THEN toISOString(lastOnlineTime) ELSE JsonNull)

\* The files the process may find at startup: none, an unreadable one, and
\* ledgers written by earlier runs (the last two by an earlier version that
\* stored no lastOnlineTime, or stored a finer unit).
InitFiles ==
    { [kind |-> "absent"],
      [kind |-> "malformed"],
      JsonFile(Num(120), Num(30), toISOString(120000), "true", toISOString(120000)),
      JsonFile(Num(120), Num(30), toISOString(180000), "false", toISOString(120000)),
      JsonFile(Num(120), Num(30), toISOString(120000), "true", JsonNull),
      JsonFile(<<400000000, 0>>, Num(0), toISOString(120000), "true", JsonNull) }

----------------------------------------------------------------------------
(* Uptime accounting *)

TotalSeconds == NumSum(uptimeSeconds, downtimeSeconds)

\* updateUptimeTracker without the early return for deltaMs < 1000
updateUptimeTracker_NoShortReturn(now) ==
    IF lastStatus = "null"
    THEN /\ lastUpdatedAt' = now
         /\ UNCHANGED <<uptimeSeconds, downtimeSeconds>>
    ELSE LET deltaMs == now - lastUpdatedAt
             deltaSec == deltaMs \div 1000
         IN  /\ IF lastStatus = "true"
                THEN /\ uptimeSeconds' = NumAdd(uptimeSeconds, deltaSec)
                     /\ UNCHANGED downtimeSeconds
                ELSE /\ downtimeSeconds' = NumAdd(downtimeSeconds, deltaSec)
                     /\ UNCHANGED uptimeSeconds
             /\ lastUpdatedAt' = lastUpdatedAt + deltaSec * 1000

\* a settlement that adds the whole seconds to both counters
updateUptimeTracker_AddsToBoth(now) ==
    IF lastStatus = "null"
    THEN /\ lastUpdatedAt' = now
         /\ UNCHANGED <<uptimeSeconds, downtimeSeconds>>
    ELSE LET deltaMs == now - lastUpdatedAt IN
         IF deltaMs < 1000
         THEN /\ lastUpdatedAt' = now
              /\ UNCHANGED <<uptimeSeconds, downtimeSeconds>>
         ELSE LET deltaSec == deltaMs \div 1000 IN
              /\ uptimeSeconds' = NumAdd(uptimeSeconds, deltaSec)
              /\ downtimeSeconds' = NumAdd(downtimeSeconds, deltaSec)
              /\ lastUpdatedAt' = lastUpdatedAt + deltaSec * 1000

\* a settlement that moves the anchor to the end of the second under way
updateUptimeTracker_RoundsUp(now) ==
    IF lastStatus = "null"
    THEN /\ lastUpdatedAt' = now
         /\ UNCHANGED <<uptimeSeconds, downtimeSeconds>>
    ELSE LET deltaMs == now - lastUpdatedAt IN
         IF deltaMs < 1000
         THEN /\ lastUpdatedAt' = now
              /\ UNCHANGED <<uptimeSeconds, downtimeSeconds>>
         ELSE LET deltaSec == (deltaMs + 999) \div 1000 IN
              /\ IF lastStatus = "true"
                 THEN /\ uptimeSeconds' = NumAdd(uptimeSeconds, deltaSec)
                      /\ UNCHANGED downtimeSeconds
                 ELSE /\ downtimeSeconds' = NumAdd(downtimeSeconds, deltaSec)
                      /\ UNCHANGED uptimeSeconds
              /\ lastUpdatedAt' = lastUpdatedAt + deltaSec * 1000

\* a settlement that leaves the anchor where it was after adding the seconds
updateUptimeTracker_KeepsAnchor(now) ==
    IF lastStatus = "null"
    THEN /\ lastUpdatedAt' = now
         /\ UNCHANGED <<uptimeSeconds, downtimeSeconds>>
    ELSE LET deltaMs == now - lastUpdatedAt IN
         IF deltaMs < 1000
         THEN /\ lastUpdatedAt' = now
              /\ UNCHANGED <<uptimeSeconds, downtimeSeconds>>
         ELSE LET deltaSec == deltaMs \div 1000 IN
              /\ IF lastStatus = "true"
                 THEN /\ uptimeSeconds' = NumAdd(uptimeSeconds, deltaSec)
                      /\ UNCHANGED downtimeSeconds
                 ELSE /\ downtimeSeconds' = NumAdd(downtimeSeconds, deltaSec)
                      /\ UNCHANGED uptimeSeconds
              /\ UNCHANGED lastUpdatedAt

\* a settlement that goes by the status shown rather than by lastStatus
updateUptimeTracker_GoesByIsOnline(now) ==
    IF lastStatus = "null"
    THEN /\ lastUpdatedAt' = now
         /\ UNCHANGED <<uptimeSeconds, downtimeSeconds>>
    ELSE LET deltaMs == now - lastUpdatedAt IN
         IF deltaMs < 1000
         THEN /\ lastUpdatedAt' = now
              /\ UNCHANGED <<uptimeSeconds, downtimeSeconds>>
         ELSE LET deltaSec == deltaMs \div 1000 IN
              /\ IF isOnline = "true"
                 THEN /\ uptimeSeconds' = NumAdd(uptimeSeconds, deltaSec)
                      /\ UNCHANGED downtimeSeconds
                 ELSE /\ downtimeSeconds' = NumAdd(downtimeSeconds, deltaSec)
                      /\ UNCHANGED uptimeSeconds
              /\ lastUpdatedAt' = lastUpdatedAt + deltaSec * 1000

updateUptimeTracker(now) ==
    IF lastStatus = "null"
    THEN /\ lastUpdatedAt' = now
         /\ UNCHANGED <<uptimeSeconds, downtimeSeconds>>
    ELSE LET deltaMs == now - lastUpdatedAt IN
         IF deltaMs < 1000
         THEN /\ lastUpdatedAt' = now
              /\ UNCHANGED <<uptimeSeconds, downtimeSeconds>>
         ELSE LET deltaSec == deltaMs \div 1000 IN
              /\ IF lastStatus = "true"
                 THEN /\ uptimeSeconds' = NumAdd(uptimeSeconds, deltaSec)
                      /\ UNCHANGED downtimeSeconds
                 ELSE /\ downtimeSeconds' = NumAdd(downtimeSeconds, deltaSec)
                      /\ UNCHANGED uptimeSeconds
              /\ lastUpdatedAt' = lastUpdatedAt + deltaSec * 1000

\* history of the settlement calls made since the anchor was last set by a
\* load, by a probe's completion or by a call that found lastStatus unset:
\* a0 that anchor, tN the time of the latest call, grown the seconds added
SettledReset(anchor) == [a0 |-> anchor, tN |-> anchor, grown |-> 0]

SettledAfterCall(now) ==
    IF lastStatus = "null"
    THEN SettledReset(now)
    ELSE [a0 |-> settled.a0, tN |-> now,
          grown |-> settled.grown
                    + NumMinus(NumSum(uptimeSeconds', downtimeSeconds'), TotalSeconds)]

----------------------------------------------------------------------------
(* Health check *)

Outcomes == {"ok", "http", "error"}

\* res.ok, or a thrown fetch: the classified status
classify(outcome) == IF outcome = "ok" THEN "true" ELSE "false"

\* res.status, or err.name
httpStatusOf(outcome) ==
    CASE outcome = "ok"    -> "200"
      [] outcome = "http"  -> "503"
      [] outcome = "error" -> "FetchError"

\* checkStatus settling once more when the fetch has settled, so that the
\* time the probe took goes to the status found before it
checkStatusResume_SettlesAgain(outcome, now) ==
    LET newStatus == classify(outcome)
        deltaSec == (now - lastUpdatedAt) \div 1000
    IN
    /\ lastHttpStatus' = httpStatusOf(outcome)
    /\ IF newStatus # lastStatus
       THEN /\ lastStateChange' = now
            /\ IF newStatus = "true"
               THEN /\ lastOnlineTime' = now
                    /\ downStartTime' = null
               ELSE /\ downStartTime' = now
                    /\ UNCHANGED lastOnlineTime
       ELSE UNCHANGED <<lastStateChange, lastOnlineTime, downStartTime>>
    /\ isOnline' = newStatus
    /\ lastStatus' = newStatus
    /\ lastCheck' = now
    /\ lastUpdatedAt' = now
    /\ IF lastStatus = "true"
       THEN /\ uptimeSeconds' = NumAdd(uptimeSeconds, deltaSec)
            /\ UNCHANGED downtimeSeconds
       ELSE IF lastStatus = "false"
       THEN /\ downtimeSeconds' = NumAdd(downtimeSeconds, deltaSec)
            /\ UNCHANGED uptimeSeconds
       ELSE UNCHANGED <<uptimeSeconds, downtimeSeconds>>

\* checkStatus stamping lastStateChange at every probe, flip or not
checkStatusResume_StampsEveryProbe(outcome, now) ==
    LET newStatus == classify(outcome) IN
    /\ lastHttpStatus' = httpStatusOf(outcome)
    /\ lastStateChange' = now
    /\ IF newStatus # lastStatus
       THEN IF newStatus = "true"
            THEN /\ lastOnlineTime' = now
                 /\ downStartTime' = null
            ELSE /\ downStartTime' = now
                 /\ UNCHANGED lastOnlineTime
       ELSE UNCHANGED <<lastOnlineTime, downStartTime>>
    /\ isOnline' = newStatus
    /\ lastStatus' = newStatus
    /\ lastCheck' = now
    /\ lastUpdatedAt' = now
    /\ UNCHANGED <<uptimeSeconds, downtimeSeconds>>

\* checkStatus from the point where the awaited fetch has settled
checkStatusResume(outcome, now) ==
    LET newStatus == classify(outcome) IN
    /\ lastHttpStatus' = httpStatusOf(outcome)
    /\ IF newStatus # lastStatus
       THEN /\ lastStateChange' = now
            /\ IF newStatus = "true"
               THEN /\ lastOnlineTime' = now
                    /\ downStartTime' = null
               ELSE /\ downStartTime' = now
                    /\ UNCHANGED lastOnlineTime
       ELSE UNCHANGED <<lastStateChange, lastOnlineTime, downStartTime>>
    /\ isOnline' = newStatus
    /\ lastStatus' = newStatus
    /\ lastCheck' = now
    /\ lastUpdatedAt' = now
    /\ UNCHANGED <<uptimeSeconds, downtimeSeconds>>

----------------------------------------------------------------------------
(* Scheduling *)

\* rescheduling a fixed interval after "now" instead of at the next boundary
nextCheckDelay_FixedInterval(now) == FiveMinutesMs

\* a delay clamped at zero from the boundary that followed the probe's start
nextCheckDelay_ClampedToMissedBoundary(now) ==
    IF pc = "fetching"
    THEN LET due == roundUpToNext5Minutes(hist.probeStartedAt)
         IN  IF due > now THEN due - now ELSE 0
    ELSE roundUpToNext5Minutes(now) - now

\* the delay handed to setTimeout(scheduleNextCheck, ...)
nextCheckDelay(now) == roundUpToNext5Minutes(now) - now

SaveIntervalMs == 60 * 1000

InitWith(times, files) ==
    /\ clock \in times
    /\ wallOffset = 0
    /\ pc = "boot"
    /\ probeTimer = null
    /\ saveTimer = null
    /\ disk \in files
    /\ isOnline = "null"
    /\ lastOnlineTime = null
    /\ downStartTime = null
    /\ lastCheck = null
    /\ lastHttpStatus = "null"
    /\ uptimeSeconds = Num(0)
    /\ downtimeSeconds = Num(0)
    /\ lastStateChange = null
    /\ lastStatus = "null"
    /\ lastUpdatedAt = clock
    /\ startedAt = null
    /\ settled = SettledReset(clock)
    /\ hist = [wakes |-> 0, inFlight |-> 0, probeStartedAt |-> null, pre |-> << >>,
               fileStatus |-> "null", loadedUptime |-> Num(0),
               loadedDowntime |-> Num(0)]
    /\ ticks = 0

Init == InitWith(StartTimes, InitFiles)

\* the startup sequence: await loadUptimeFromDisk(), then the two timers
Startup ==
    /\ pc = "boot"
    /\ LET l == loadUptimeFromDisk(disk, nowMs) IN
       /\ uptimeSeconds' = l.uptimeSeconds
       /\ downtimeSeconds' = l.downtimeSeconds
       /\ lastStateChange' = l.lastStateChange
       /\ lastStatus' = l.lastStatus
       /\ lastOnlineTime' = l.lastOnlineTime
       /\ lastUpdatedAt' = l.lastUpdatedAt
       /\ settled' = SettledReset(l.lastUpdatedAt)
       /\ hist' = [hist EXCEPT !.wakes = @ + 1,
                               !.fileStatus = IF disk.kind = "json"
                                              THEN disk.lastStatus ELSE "null",
                               !.loadedUptime = l.uptimeSeconds,
                               !.loadedDowntime = l.downtimeSeconds]
    /\ probeTimer' = clock + nextCheckDelay(nowMs)
    /\ saveTimer' = clock + SaveIntervalMs
    /\ pc' = "waiting"
    /\ startedAt' = nowMs
    /\ UNCHANGED <<clock, wallOffset, disk, isOnline, downStartTime, lastCheck,
                   lastHttpStatus, ticks>>

\* what a query would read of the monitor state and lastStatus
MonitorSnapshot ==
    <<isOnline, lastStatus, lastCheck, lastStateChange, lastOnlineTime,
      downStartTime, lastHttpStatus>>

\* a handler that arms the next wake before it awaits checkStatus
ScheduleNextCheck_ArmsTimerFirst ==
    /\ pc = "waiting"
    /\ clock = probeTimer
    /\ updateUptimeTracker(nowMs)
    /\ settled' = SettledAfterCall(nowMs)
    /\ hist' = [hist EXCEPT !.inFlight = @ + 1,
                            !.probeStartedAt = nowMs, !.pre = MonitorSnapshot]
    /\ pc' = "fetching"
    /\ probeTimer' = clock + nextCheckDelay(nowMs)
    /\ UNCHANGED <<clock, wallOffset, saveTimer, disk, monitorVars, lastStateChange,
                   lastStatus, startedAt, ticks>>

\* a handler that shows the status as unknown while the probe is under way
ScheduleNextCheck_ClearsStatus ==
    /\ pc = "waiting"
    /\ clock = probeTimer
    /\ updateUptimeTracker(nowMs)
    /\ settled' = SettledAfterCall(nowMs)
    /\ hist' = [hist EXCEPT !.wakes = @ - 1, !.inFlight = @ + 1,
                            !.probeStartedAt = nowMs, !.pre = MonitorSnapshot]
    /\ pc' = "fetching"
    /\ probeTimer' = null
    /\ isOnline' = "null"
    /\ UNCHANGED <<clock, wallOffset, saveTimer, disk, lastOnlineTime, downStartTime,
                   lastCheck, lastHttpStatus, lastStateChange, lastStatus,
                   startedAt, ticks>>

\* the probe timer fires: scheduleNextCheck runs checkStatus up to its await
ScheduleNextCheck ==
    /\ pc = "waiting"
    /\ clock = probeTimer
    /\ updateUptimeTracker(nowMs)
    /\ settled' = SettledAfterCall(nowMs)
    /\ hist' = [hist EXCEPT !.wakes = @ - 1, !.inFlight = @ + 1,
                            !.probeStartedAt = nowMs, !.pre = MonitorSnapshot]
    /\ pc' = "fetching"
    /\ probeTimer' = null
    /\ UNCHANGED <<clock, wallOffset, saveTimer, disk, monitorVars,
                   lastStateChange, lastStatus, startedAt, ticks>>

\* scheduleNextCheck ending when the fetch throws: checkStatus without its
\* catch, so that the timer is not armed again
FetchSettled_ThrowEndsLoop(outcome) ==
    /\ pc = "fetching"
    /\ IF outcome = "error"
       THEN /\ pc' = "stopped"
            /\ probeTimer' = null
            /\ hist' = [hist EXCEPT !.inFlight = @ - 1, !.pre = << >>]
            /\ UNCHANGED <<monitorVars, uptimeSeconds, downtimeSeconds,
                           lastStateChange, lastStatus, lastUpdatedAt, settled>>
       ELSE /\ checkStatusResume(outcome, nowMs)
            /\ settled' = SettledReset(nowMs)
            /\ hist' = [hist EXCEPT !.inFlight = @ - 1, !.wakes = @ + 1,
                                    !.pre = << >>]
            /\ probeTimer' = clock + nextCheckDelay(nowMs)
            /\ pc' = "waiting"
    /\ UNCHANGED <<clock, wallOffset, saveTimer, disk, startedAt, ticks>>

\* the fetch settles: checkStatus finishes and scheduleNextCheck arms the timer
FetchSettled(outcome) ==
    /\ pc = "fetching"
    /\ checkStatusResume(outcome, nowMs)
    /\ settled' = SettledReset(nowMs)
    /\ hist' = [hist EXCEPT !.inFlight = @ - 1, !.wakes = @ + 1, !.pre = << >>]
    /\ probeTimer' = clock + nextCheckDelay(nowMs)
    /\ pc' = "waiting"
    /\ UNCHANGED <<clock, wallOffset, saveTimer, disk, startedAt, ticks>>

\* a write failure that also cancels the save interval
SaveInterval_FailureClearsInterval(written) ==
    /\ pc # "boot"
    /\ clock = saveTimer
    /\ disk' = IF written THEN saveData ELSE disk
    /\ saveTimer' = IF written THEN saveTimer + SaveIntervalMs ELSE null
    /\ UNCHANGED <<clock, wallOffset, pc, probeTimer, monitorVars, uptimeSeconds,
                   downtimeSeconds, lastStateChange, lastStatus, lastUpdatedAt,
                   startedAt, settled, hist, ticks>>

\* the save interval fires: saveUptimeToDisk, whose write succeeds or fails
SaveInterval(written) ==
    /\ pc # "boot"
    /\ clock = saveTimer
    /\ disk' = IF written THEN saveData ELSE disk
    /\ saveTimer' = saveTimer + SaveIntervalMs
    /\ UNCHANGED <<clock, wallOffset, pc, probeTimer, monitorVars, uptimeSeconds,
                   downtimeSeconds, lastStateChange, lastStatus, lastUpdatedAt,
                   startedAt, settled, hist, ticks>>

\* GET /uptime
GetUptime ==
    /\ pc # "boot"
    /\ updateUptimeTracker(nowMs)
    /\ settled' = SettledAfterCall(nowMs)
    /\ UNCHANGED <<clock, wallOffset, pc, probeTimer, saveTimer, disk, monitorVars,
                   lastStateChange, lastStatus, startedAt, hist, ticks>>

\* GET /status
GetStatus ==
    /\ pc # "boot"
    /\ UNCHANGED vars

----------------------------------------------------------------------------
(* The passage of time *)

NextDeadline ==
    IF pc = "waiting" /\ probeTimer < saveTimer THEN probeTimer ELSE saveTimer

\* time passes up to the next timer
AdvanceToTimer ==
    /\ pc # "boot"
    /\ clock < NextDeadline
    /\ NextDeadline <= MaxTime
    /\ clock' = NextDeadline
    /\ UNCHANGED <<wallOffset, pc, probeTimer, saveTimer, disk, monitorVars,
                   uptimeSeconds, downtimeSeconds, lastStateChange, lastStatus,
                   lastUpdatedAt, startedAt, settled, hist, ticks>>

\* a short time passes
Tick(d) ==
    /\ pc # "boot"
    /\ ticks < MaxSmallTicks
    /\ clock + d <= NextDeadline
    /\ clock + d <= MaxTime
    /\ clock' = clock + d
    /\ ticks' = ticks + 1
    /\ UNCHANGED <<wallOffset, pc, probeTimer, saveTimer, disk, monitorVars,
                   uptimeSeconds, downtimeSeconds, lastStateChange, lastStatus,
                   lastUpdatedAt, startedAt, settled, hist>>

\* the wall clock is set back
ClockStepBack(d) ==
    /\ pc # "boot"
    /\ wallOffset - d >= 0 - MaxSkew
    /\ wallOffset' = wallOffset - d
    /\ UNCHANGED <<clock, pc, probeTimer, saveTimer, disk, monitorVars,
                   uptimeSeconds, downtimeSeconds, lastStateChange, lastStatus,
                   lastUpdatedAt, startedAt, settled, hist, ticks>>

Next ==
    \/ Startup
    \/ ScheduleNextCheck
    \/ \E outcome \in Outcomes : FetchSettled(outcome)
    \/ \E written \in BOOLEAN : SaveInterval(written)
    \/ GetUptime
    \/ GetStatus
    \/ AdvanceToTimer
    \/ \E d \in SmallSteps : Tick(d)

Spec == Init /\ [][Next]_vars

\* The same with a wall clock that may be set back, from one startup instant
\* with the ledger of a run that ended Online
InitSkew ==
    InitWith({299000},
             { JsonFile(Num(120), Num(30), toISOString(120000), "true",
                        toISOString(120000)) })

NextSkew ==
    \/ Next
    \/ \E d \in BackSteps : ClockStepBack(d)

SpecSkew == InitSkew /\ [][NextSkew]_vars

\* The probe loop under the fairness of the event loop: time passes, due
\* timers fire and the pending fetch settles
InitLive ==
    InitWith({299000},
             { [kind |-> "absent"],
               JsonFile(Num(120), Num(30), toISOString(180000), "false",
                        toISOString(120000)) })

SpecLive ==
    /\ InitLive
    /\ [][Next]_vars
    /\ WF_vars(AdvanceToTimer)
    /\ WF_vars(ScheduleNextCheck)
    /\ WF_vars(\E outcome \in Outcomes : FetchSettled(outcome))
    /\ WF_vars(\E written \in BOOLEAN : SaveInterval(written))

\* The startup sequence alone, from a range of startup instants: every minute
\* of two hours, on and off the second and the millisecond
RoundTimes ==
    { h * 3600000 + m * 60000 + sec * 1000 + ms :
        h \in {0, 10}, m \in 0..59, sec \in {0, 15, 31, 59}, ms \in {0, 999} }

InitRound == InitWith(RoundTimes, {[kind |-> "absent"]})

NextRound == Startup

SpecRound == InitRound /\ [][NextRound]_vars

----------------------------------------------------------------------------
(* Properties *)

Booted == pc # "boot"

\* C1: over a run of settlement calls made with lastStatus known and no probe
\* completing in between, uptimeSeconds + downtimeSeconds has grown by exactly
\* floor((tN - a0) / 1000), a0 the anchor the run started from and tN the
\* time of its latest call.
C1_SettlementsExact ==
    (Booted /\ lastStatus # "null")
        => settled.grown = (settled.tN - settled.a0) \div 1000

\* C2: downStartTime is set if and only if the current status is Offline.
C2_DownSinceIffOffline ==
    (downStartTime # null) <=> (isOnline = "false")

\* C3: a completing probe changes lastStateChange exactly when its classified
\* status differs from lastStatus; probe starts, settlements, saves and
\* queries leave lastStateChange as it is.
C3_StateChangeOnlyOnFlip ==
    [][ /\ \A o \in Outcomes :
              FetchSettled(o) =>
                  ((lastStateChange' # lastStateChange) <=> (classify(o) # lastStatus))
        /\ (ScheduleNextCheck \/ GetUptime \/ GetStatus
                \/ \E w \in BOOLEAN : SaveInterval(w))
              => lastStateChange' = lastStateChange ]_vars

\* a probe has completed that classified the status it found: lastStateChange
\* is older than the probe
C3_Witness ==
    /\ pc = "waiting"
    /\ lastCheck # null
    /\ lastStateChange # null
    /\ lastStateChange < lastCheck


\* a * 1000 for a counter value a
NumMul1000(a) ==
    LET lo == a[2] * 1000 IN <<a[1] * 1000 + (lo \div 1000000), lo % 1000000>>

\* q is a divided by 1000, rounded down
IsFloorDiv1000(q, a) ==
    /\ NumLE(NumMul1000(q), a)
    /\ NumGT(NumMul1000(NumAdd(q, 1)), a)

Inflated(a) == NumGT(a, NumTimes1000(TEN_YEARS_SEC))

RoundTripCounter(saved, loaded) ==
    IF Inflated(saved) THEN IsFloorDiv1000(loaded, saved) ELSE loaded = saved

C5_ProbesOnBoundaries ==
    [][ ScheduleNextCheck =>
            /\ nowMs % FiveMinutesMs = 0
            /\ nowMs > startedAt
            /\ lastCheck = null => nowMs - startedAt <= FiveMinutesMs ]_vars

\* a probe has started on a boundary although the probe before it completed
\* off the boundary
C5_Witness ==
    /\ pc = "fetching"
    /\ lastCheck # null
    /\ lastCheck % FiveMinutesMs # 0
    /\ nowMs % FiveMinutesMs = 0

SavedTotal ==
    IF disk.kind = "json"
    THEN NumSum(disk.uptimeSeconds, disk.downtimeSeconds)
    ELSE Num(0)

\* C6: the seconds held by the in-memory counters and absent from the ledger
\* on disk number at most 60.
C6_CrashWindow ==
    Booted => NumLE(TotalSeconds, NumAdd(SavedTotal, 60))

\* C7: roundUpToNext5Minutes(t) lies on a minute that is a multiple of 5, with
\* zero seconds and milliseconds, is later than t and at most 5 minutes later
\* (so it is the first such instant after t); the startup arms the probe timer
\* with it.
C7_RoundUpIsNextBoundary ==
    LET t == nowMs
        r == roundUpToNext5Minutes(t)
        iso == toISOString(r)
    IN  /\ iso[3] % 5 = 0 /\ iso[4] = 0 /\ iso[5] = 0
        /\ r % FiveMinutesMs = 0
        /\ r > t
        /\ r - t <= FiveMinutesMs
        /\ (Booted /\ clock = startedAt) => probeTimer = r

\* the startup happened exactly on a boundary and armed the timer for the next
C7_Witness ==
    /\ Booted
    /\ startedAt % FiveMinutesMs = 0
    /\ probeTimer = startedAt + FiveMinutesMs


\* C8: a probe that has completed is followed by the start of another probe
\* (as far as the next boundary lies within the time modelled), whatever the
\* outcome was; a probe that fails classifies Offline and arms the timer again.
C8_ProbeLoopNeverStops ==
    /\ []( (pc # "fetching" /\ lastCheck # null
                /\ roundUpToNext5Minutes(lastCheck) <= MaxTime)
            => <>(pc = "fetching") )
    /\ [][ \A o \in {"http", "error"} :
               FetchSettled(o) =>
                   /\ isOnline' = "false"
                   /\ pc' = "waiting"
                   /\ probeTimer' > clock' ]_vars

\* a probe is under way after a probe that failed
C8_Witness ==
    /\ pc = "fetching"
    /\ lastCheck # null
    /\ isOnline = "false"
    /\ lastHttpStatus = "FetchError"

\* C9: the settlement at the start of a probe adds the whole seconds elapsed
\* since the anchor to the counter of the status found before the probe, and
\* the completion of the probe leaves both counters as they are.
C9_ProbeInstantNotAttributed ==
    [][ /\ \A o \in Outcomes :
              FetchSettled(o) =>
                  /\ uptimeSeconds' = uptimeSeconds
                  /\ downtimeSeconds' = downtimeSeconds
        /\ ScheduleNextCheck =>
              LET deltaMs == nowMs - lastUpdatedAt
                  whole == IF lastStatus # "null" /\ deltaMs >= 1000
                           THEN deltaMs \div 1000 ELSE 0
              IN  /\ uptimeSeconds' =
                        NumAdd(uptimeSeconds, IF lastStatus = "true" THEN whole ELSE 0)
                  /\ downtimeSeconds' =
                        NumAdd(downtimeSeconds, IF lastStatus = "false" THEN whole ELSE 0)
      ]_vars

\* Online since the first probe, 300 seconds settled at the start of the
\* second probe, which failed some time after it started
C9_Witness ==
    /\ pc = "waiting"
    /\ isOnline = "false"
    /\ lastOnlineTime # null
    /\ downStartTime = lastCheck
    /\ lastStateChange = lastCheck
    /\ lastCheck % FiveMinutesMs # 0
    /\ uptimeSeconds = Num(300)
    /\ downtimeSeconds = Num(0)

NonNegative(a) == a[1] >= 0 /\ a[2] >= 0

\* C10: both counters are non-negative and no step decreases either of them,
\* also when the wall clock is set back between calls.
C10_CountersNeverDecrease ==
    /\ [](NonNegative(uptimeSeconds) /\ NonNegative(downtimeSeconds))
    /\ [][ /\ NumLE(uptimeSeconds, uptimeSeconds')
           /\ NumLE(downtimeSeconds, downtimeSeconds') ]_vars

\* a settlement call has run with the wall clock behind the anchor
C10_Witness ==
    /\ wallOffset < 0
    /\ lastStatus # "null"
    /\ settled.tN = nowMs
    /\ settled.tN < settled.a0
    /\ lastUpdatedAt = nowMs

\* C11: a load that finds no file or a malformed one ends normally with a fresh
\* ledger (both counters 0, lastStatus unset, lastStateChange and
\* lastOnlineTime absent) and the service goes on to arm its timers; a save
\* whose write fails changes nothing in memory and the save interval stays
\* armed for the next minute.
C11_FailuresAreAbsorbed ==
    [][ /\ (Startup /\ disk.kind # "json")
              => /\ uptimeSeconds' = Num(0)
                 /\ downtimeSeconds' = Num(0)
                 /\ lastStatus' = "null"
                 /\ lastStateChange' = null
                 /\ lastOnlineTime' = null
                 /\ pc' = "waiting"
                 /\ probeTimer' # null
                 /\ saveTimer' # null
        /\ (pc # "boot" /\ clock = saveTimer /\ clock' = clock /\ disk' = disk
               /\ saveTimer' # saveTimer)
              => /\ UNCHANGED <<monitorVars, ledgerVars, lastUpdatedAt, pc>>
                 /\ saveTimer' = saveTimer + SaveIntervalMs ]_vars

\* the file was malformed at the load and two saves in a row have failed
C11_Witness ==
    /\ pc # "boot"
    /\ disk.kind = "malformed"
    /\ hist.fileStatus = "null"
    /\ saveTimer >= startedAt + 3 * SaveIntervalMs
    /\ lastCheck # null
    /\ lastStatus # "null"


\* C12: a settlement that finds lastStatus known and less than one whole
\* second since the anchor leaves the anchor lastUpdatedAt and both counters
\* as they are.
C12_ShortSettlementKeepsAnchor ==
    [][ ((GetUptime \/ ScheduleNextCheck)
            /\ lastStatus # "null" /\ nowMs - lastUpdatedAt < 1000)
          => UNCHANGED <<lastUpdatedAt, uptimeSeconds, downtimeSeconds>> ]_vars

\* the probe under way has been pending since before a 5-minute boundary
\* that has passed by now
OutlastedBoundary ==
    /\ pc = "fetching"
    /\ roundUpToNext5Minutes(hist.probeStartedAt) <= nowMs

\* C13 as stated: when a probe that outlasted a 5-minute boundary completes,
\* the next wake is due at once (a delay of zero).
C13_WakeImmediatelyAfterLateProbe ==
    [][ \A o \in Outcomes :
            (OutlastedBoundary /\ FetchSettled(o)) => probeTimer' = clock' ]_vars

\* C13, amended: when a probe completes, also one that outlasted a 5-minute
\* boundary, the next wake is armed for the first 5-minute boundary strictly
\* after the instant of completion: the delay is positive and at most five
\* minutes, and the boundary that passed meanwhile gets no probe of its own.
C13_WakeAtBoundaryAfterCompletion ==
    [][ \A o \in Outcomes :
            FetchSettled(o) =>
                /\ probeTimer' > clock'
                /\ probeTimer' - clock' <= FiveMinutesMs
                /\ (probeTimer' + wallOffset') % FiveMinutesMs = 0 ]_vars

\* a probe started at one boundary, completed after the next one had passed,
\* and the wake is armed for the boundary after that
C13_Witness ==
    /\ pc = "waiting"
    /\ lastCheck # null
    /\ roundUpToNext5Minutes(hist.probeStartedAt) <= lastCheck
    /\ probeTimer + wallOffset = roundUpToNext5Minutes(lastCheck)
    /\ probeTimer > clock

\* C14: at most one probe is in flight and at most one probe wake is armed at
\* any time, and never both: the wake for the next probe is armed only by the
\* completion of the probe under way.
C14_OneProbeOneWake ==
    /\ [](/\ hist.inFlight <= 1
          /\ hist.wakes <= 1
          /\ (pc # "boot" => hist.inFlight + hist.wakes = 1)
          /\ (hist.inFlight = 1 <=> pc = "fetching")
          /\ (hist.wakes = 1 <=> probeTimer # null))
    /\ [][ hist'.wakes > hist.wakes
             => (pc = "boot" \/ (hist.inFlight = 1 /\ hist'.inFlight = 0)) ]_vars

\* a probe is still in flight after the boundary that followed its start has
\* passed: no second probe has started and no wake is armed
C14_Witness ==
    /\ OutlastedBoundary
    /\ hist.inFlight = 1
    /\ hist.wakes = 0
    /\ probeTimer = null
    /\ saveTimer > clock

\* C15: while a probe is pending, status, lastStatus, lastCheck,
\* lastStateChange, lastOnlineTime, downStartTime and the last probe outcome
\* keep the values they had when the probe started, whatever queries,
\* settlements and saves run meanwhile; a settlement run meanwhile adds only to
\* the counter of the pre-probe lastStatus; the step in which the probe
\* completes writes the whole result at once.
C15_ProbeResultAppliedAtOnce ==
    /\ [](pc = "fetching" => MonitorSnapshot = hist.pre)
    /\ [][ /\ (pc = "fetching" /\ GetUptime)
                 => /\ (uptimeSeconds' # uptimeSeconds => hist.pre[2] = "true")
                    /\ (downtimeSeconds' # downtimeSeconds => hist.pre[2] = "false")
           /\ \A o \in Outcomes :
                 FetchSettled(o) =>
                     /\ isOnline' = classify(o)
                     /\ lastStatus' = classify(o)
                     /\ lastCheck' = nowMs
                     /\ lastHttpStatus' = httpStatusOf(o)
                     /\ (classify(o) # hist.pre[2] => lastStateChange' = nowMs)
                     /\ (classify(o) = "false" /\ hist.pre[2] # "false"
                            => downStartTime' = nowMs)
                     /\ (classify(o) = "true" => downStartTime' = null) ]_vars

\* a probe is pending; since it started a save has run and a query has
\* settled whole seconds
C15_Witness ==
    /\ pc = "fetching"
    /\ lastStatus # "null"
    /\ settled.tN > hist.probeStartedAt
    /\ settled.grown > 0
    /\ saveTimer + wallOffset > hist.probeStartedAt + SaveIntervalMs
    /\ MonitorSnapshot = hist.pre

\* C16: a settlement that finds lastStatus known and at least one whole
\* second since the anchor adds floor(deltaMs / 1000) to exactly one counter,
\* uptimeSeconds when lastStatus is Online and downtimeSeconds when it is
\* Offline, and leaves the other counter as it is.
C16_OneCounterPerSettlement ==
    [][ ((GetUptime \/ ScheduleNextCheck)
            /\ lastStatus # "null" /\ nowMs - lastUpdatedAt >= 1000)
          => LET whole == (nowMs - lastUpdatedAt) \div 1000 IN
             /\ whole >= 1
             /\ lastStatus = "true"
                   => /\ uptimeSeconds' = NumAdd(uptimeSeconds, whole)
                      /\ downtimeSeconds' = downtimeSeconds
             /\ lastStatus = "false"
                   => /\ downtimeSeconds' = NumAdd(downtimeSeconds, whole)
                      /\ uptimeSeconds' = uptimeSeconds
             /\ (uptimeSeconds' # uptimeSeconds) # (downtimeSeconds' # downtimeSeconds)
      ]_vars

\* a query has just settled whole seconds of Offline time after a probe that
\* failed, the uptime counter still at what the load read
C16_Witness ==
    /\ lastStatus = "false"
    /\ isOnline = "false"
    /\ settled.tN = nowMs
    /\ settled.grown > 0
    /\ uptimeSeconds = hist.loadedUptime
    /\ NumGT(downtimeSeconds, hist.loadedDowntime)

\* C17: lastOnlineTime is set to the instant of the probe whenever the status
\* shown goes to Online, the first Online probe after a restart included; no
\* step clears it; so whenever the status shown is Online, lastOnlineTime is
\* present.
C17_LastOnlineFollowsStatus ==
    [][ /\ \A o \in Outcomes :
              (FetchSettled(o) /\ isOnline # "true" /\ isOnline' = "true")
                  => lastOnlineTime' = nowMs
        /\ (pc # "boot" /\ lastOnlineTime # null) => lastOnlineTime' # null
        /\ isOnline' = "true" => lastOnlineTime' # null ]_vars

\* C18: with a wall clock that does not go backwards, the anchor lastUpdatedAt
\* is never ahead of the current time.
C18_AnchorNotAhead ==
    lastUpdatedAt <= nowMs

\* a settlement has just added whole seconds and left the rest of a second
\* behind the anchor
C18_Witness ==
    /\ settled.tN = nowMs
    /\ settled.grown > 0
    /\ lastUpdatedAt < nowMs
    /\ nowMs - lastUpdatedAt < 1000

\* the two counters as the load left them, summed
LoadedTotal == NumSum(hist.loadedUptime, hist.loadedDowntime)

\* C19: with a wall clock that does not go backwards, and whatever queries,
\* saves and probe steps have run in whatever order, the two counters together
\* have grown since the load by at most the whole seconds of wall time since
\* the load: no stretch of time, the one between a probe's start and its
\* completion included, is counted twice.
C19_GrowthBoundedByElapsed ==
    pc # "boot" =>
        NumLE(TotalSeconds, NumAdd(LoadedTotal, (nowMs - startedAt) \div 1000))

\* a probe is pending and a query has settled whole seconds since it started,
\* on top of those settled when it started
C19_Witness ==
    /\ pc = "fetching"
    /\ lastStatus # "null"
    /\ settled.tN > hist.probeStartedAt
    /\ settled.a0 < hist.probeStartedAt
    /\ settled.grown > (hist.probeStartedAt - settled.a0) \div 1000
    /\ NumGT(TotalSeconds, LoadedTotal)

====
